---- MODULE Spec2Model ----
(***************************************************************************)
(* Model of the WooCommerce REST API JS client (src/index.mjs, and the     *)
(* compiled CommonJS build that follows the declarations in                *)
(* src/index.d.ts).                                                        *)
(*                                                                         *)
(* JS values are tagged records [t |-> type, v |-> value].  JS objects     *)
(* whose key order or key presence matters are TLA+ functions over the     *)
(* set of keys they own (records), so an absent key is a key outside       *)
(* DOMAIN.  Strings that the code slices, searches or parses (URLs) are    *)
(* sequences of one-character strings; strings it only concatenates or     *)
(* passes on are TLA+ strings.                                             *)
(***************************************************************************)
EXTENDS Integers, Sequences, FiniteSets, TLC

VARIABLES build, isNode, phase, arg, client, error, last, nSent

vars == <<build, isNode, phase, arg, client, error, last, nSent>>

(***************************************************************************)
(* Bound of the model: the number of transport invocations that is counted.*)
(***************************************************************************)
MaxCalls == 2

-----------------------------------------------------------------------------
(* JS values *)

Undefined == [t |-> "undefined"]
Null == [t |-> "null"]
Num(n) == [t |-> "number", v |-> n]
Str(s) == [t |-> "string", v |-> s]
Bool(b) == [t |-> "boolean", v |-> b]
Obj(pairs) == [t |-> "object", v |-> pairs]

EmptyObject == <<>>

Has(o, k) == k \in DOMAIN o

(* ToBoolean of a JS value: what `if (x)` and `!x` test. *)
Truthy(x) ==
  CASE x.t = "undefined" -> FALSE
    [] x.t = "null" -> FALSE
    [] x.t = "number" -> x.v # 0
    [] x.t = "string" -> Len(x.v) # 0
    [] x.t = "boolean" -> x.v
    [] OTHER -> TRUE

(* typeof x *)
TypeOf(x) ==
  IF x.t = "null" THEN "object" ELSE x.t

-----------------------------------------------------------------------------
(* Character strings *)

Digit(d) ==
  CASE d = 0 -> "0" [] d = 1 -> "1" [] d = 2 -> "2" [] d = 3 -> "3"
    [] d = 4 -> "4" [] d = 5 -> "5" [] d = 6 -> "6" [] d = 7 -> "7"
    [] d = 8 -> "8" [] d = 9 -> "9"

RECURSIVE NumberToChars(_)
(* String(n) for a non-negative integer, as `hostname + ":" + this.port`   *)
(* converts the port.                                                      *)
NumberToChars(n) ==
  IF n < 10 THEN <<Digit(n)>>
  ELSE NumberToChars(n \div 10) \o <<Digit(n % 10)>>

UpperToLower ==
  [A |-> "a", B |-> "b", C |-> "c", D |-> "d", E |-> "e", F |-> "f",
   G |-> "g", H |-> "h", I |-> "i", J |-> "j", K |-> "k", L |-> "l",
   M |-> "m", N |-> "n", O |-> "o", P |-> "p", Q |-> "q", R |-> "r",
   S |-> "s", T |-> "t", U |-> "u", V |-> "v", W |-> "w", X |-> "x",
   Y |-> "y", Z |-> "z"]

ToLowerCase(s) ==
  [i \in 1..Len(s) |->
     IF s[i] \in DOMAIN UpperToLower THEN UpperToLower[s[i]] ELSE s[i]]

(* Does t occur in s at position i (1-based)? *)
OccursAt(s, t, i) ==
  /\ i >= 1
  /\ i + Len(t) - 1 <= Len(s)
  /\ SubSeq(s, i, i + Len(t) - 1) = t

(* s.indexOf(t) + 1: the first position of t in s, 0 when there is none. *)
IndexOf(s, t) ==
  IF \E i \in 1..(Len(s) + 1) : OccursAt(s, t, i)
  THEN CHOOSE i \in 1..(Len(s) + 1) :
         /\ OccursAt(s, t, i)
         /\ \A j \in 1..(i - 1) : ~OccursAt(s, t, j)
  ELSE 0

(* s.replace(t, r) with a string pattern: only the first occurrence. *)
StringReplace(s, t, r) ==
  LET i == IndexOf(s, t)
  IN IF i = 0 THEN s
     ELSE SubSeq(s, 1, i - 1) \o r \o SubSeq(s, i + Len(t), Len(s))

(* s.slice(-1) *)
LastChar(s) == IF Len(s) = 0 THEN <<>> ELSE <<s[Len(s)]>>

Schemes == { <<"h","t","t","p">>, <<"h","t","t","p","s">> }

(* The scheme of an absolute URL "scheme://...". *)
SchemeOf(u) ==
  CHOOSE p \in Schemes : OccursAt(u, p \o <<":","/","/">>, 1)

(* First position at or after `from` holding a character of `stops`,       *)
(* Len(s) + 1 when there is none.                                          *)
FirstOf(s, from, stops) ==
  IF \E i \in from..Len(s) : s[i] \in stops
  THEN CHOOSE i \in from..Len(s) :
         /\ s[i] \in stops
         /\ \A j \in from..(i - 1) : s[j] \notin stops
  ELSE Len(s) + 1

(* Last position of character c in s, 0 when there is none. *)
LastIndexOfChar(s, c) ==
  IF \E i \in 1..Len(s) : s[i] = c
  THEN CHOOSE i \in 1..Len(s) :
         /\ s[i] = c
         /\ \A j \in (i + 1)..Len(s) : s[j] # c
  ELSE 0

Digits == {"0","1","2","3","4","5","6","7","8","9"}

(* new Url(url).hostname for an absolute http(s) URL: the authority between *)
(* "scheme://" and the first "/", "?" or "#", without "userinfo@" and       *)
(* without a trailing ":digits", in lower case.                            *)
Hostname(u) ==
  LET start == Len(SchemeOf(u)) + 4
      stop == FirstOf(u, start, {"/", "?", "#"})
      authority == SubSeq(u, start, stop - 1)
      at == LastIndexOfChar(authority, "@")
      hostport == SubSeq(authority, at + 1, Len(authority))
      colon == LastIndexOfChar(hostport, ":")
      hasPort == /\ colon > 0
                 /\ colon < Len(hostport)
                 /\ \A i \in (colon + 1)..Len(hostport) : hostport[i] \in Digits
      host == IF hasPort THEN SubSeq(hostport, 1, colon - 1) ELSE hostport
  IN ToLowerCase(host)

-----------------------------------------------------------------------------
(* JS objects *)

(* o[k], undefined when o has no key k. *)
Prop(o, k) == IF Has(o, k) THEN o[k] ELSE Undefined

(* a || b *)
Or(a, b) == IF Truthy(a) THEN a ELSE b

(* obj[k] = v *)
Assign(obj, k, v) ==
  [x \in (DOMAIN obj) \cup {k} |-> IF x = k THEN v ELSE obj[x]]

(* { ...a, ...b } for two key-value mappings: every key of b replaces the  *)
(* value a has under it, as a whole.                                       *)
ObjectSpread(a, b) ==
  [k \in (DOMAIN a) \cup (DOMAIN b) |-> IF k \in DOMAIN b THEN b[k] ELSE a[k]]

RECURSIVE AssignAll(_, _)
(* The own properties of an object given as a sequence of <<key, value>>   *)
(* pairs in insertion order, copied onto obj in that order.                *)
AssignAll(obj, pairs) ==
  IF pairs = <<>> THEN obj
  ELSE AssignAll(Assign(obj, pairs[1][1], pairs[1][2]), Tail(pairs))

(* { ...x } of a JS value: undefined and null spread nothing. *)
SpreadValue(x) ==
  IF x.t = "object" THEN AssignAll(EmptyObject, x.v) ELSE EmptyObject

(* `${x}` *)
TemplateString(x) ==
  CASE x.t = "string" -> x.v
    [] x.t = "undefined" -> "undefined"
    [] x.t = "null" -> "null"
    [] x.t = "number" -> ToString(x.v)
    [] x.t = "boolean" -> IF x.v THEN "true" ELSE "false"

RECURSIVE JSONstringify(_)
RECURSIVE JSONmembers(_)
(* JSON.stringify of a JS value; an object is its sequence of <<key,       *)
(* value>> pairs in insertion order.                                       *)
JSONstringify(x) ==
  CASE x.t = "number" -> ToString(x.v)
    [] x.t = "string" -> "\"" \o x.v \o "\""
    [] x.t = "boolean" -> IF x.v THEN "true" ELSE "false"
    [] x.t = "null" -> "null"
    [] x.t = "object" -> "{" \o JSONmembers(x.v) \o "}"

JSONmembers(pairs) ==
  IF pairs = <<>> THEN ""
  ELSE LET head == "\"" \o pairs[1][1] \o "\":" \o JSONstringify(pairs[1][2])
       IN IF Len(pairs) = 1 THEN head
          ELSE head \o "," \o JSONmembers(Tail(pairs))

-----------------------------------------------------------------------------
(* WooCommerceRestApi *)

(* The message of the OptionsException the constructor throws, "" when it  *)
(* throws none.  ES module build.                                          *)
OptionsError_mjs(o) ==
  IF ~Truthy(Prop(o, "url")) THEN "url is required"
  ELSE IF ~Truthy(Prop(o, "jwtToken")) THEN "jwtToken is required"
  ELSE ""

(* Variant of OptionsError_cjs that tests only the presence of the url     *)
(* key, so that an empty url passes.                                       *)
OptionsError_cjs_PresenceOnly(o) ==
  IF ~Has(o, "url") THEN "url is required"
  ELSE ""

(* The same check of the compiled CommonJS build: the token check is       *)
(* commented out.                                                          *)
OptionsError_cjs(o) ==
  IF ~Truthy(Prop(o, "url")) THEN "url is required"
  ELSE ""

OptionsError(b, o) ==
  IF b = "mjs" THEN OptionsError_mjs(o) ELSE OptionsError_cjs(o)

ClassVersion == "1.0.1"

_setDefaultsOptions(o) ==
  [classVersion |-> ClassVersion,
   url |-> Prop(o, "url"),
   wpAPIPrefix |-> Or(Prop(o, "wpAPIPrefix"), Str(<<"w","p","-","j","s","o","n">>)),
   version |-> Or(Prop(o, "version"), Str(<<"w","c","/","v","3">>)),
   jwtToken |-> Prop(o, "jwtToken"),
   encoding |-> Or(Prop(o, "encoding"), Str("utf8")),
   port |-> Or(Prop(o, "port"), Str("")),
   timeout |-> Prop(o, "timeout"),
   axiosConfig |-> Or(Prop(o, "axiosConfig"), Obj(EmptyObject))]

RECURSIVE _parseParamsObject(_, _)
RECURSIVE ParseProps(_, _, _)
(* The inner loop of _parseParamsObject: query[key + "[" + prop + "]"] =   *)
(* value[prop] for each prop of the nested value.                          *)
ParseProps(key, props, query) ==
  IF props = <<>> THEN query
  ELSE ParseProps(key, Tail(props),
                  Assign(query, key \o "[" \o props[1][1] \o "]", props[1][2]))

(* params is a sequence of <<key, value>> pairs. *)
_parseParamsObject(params, query) ==
  IF params = <<>> THEN query
  ELSE LET key == params[1][1]
           value == params[1][2]
       IN _parseParamsObject(
            Tail(params),
            IF TypeOf(value) = "object"
            THEN (IF value.t = "null" THEN query
                  ELSE ParseProps(key, value.v, query))
            ELSE Assign(query, key, value))

(* String(port) as spliced into the URL. *)
PortChars(port) ==
  IF port.t = "number" THEN NumberToChars(port.v) ELSE port.v

(* this.port !== "" *)
HasPort(c) == ~(c.port.t = "string" /\ Len(c.port.v) = 0)

(* Variant of _getUrl that appends "/" to the base URL unconditionally. *)
_getUrl_AlwaysSlash(c, endpoint) ==
  LET api == c.wpAPIPrefix.v \o <<"/">>
      base == c.url.v \o <<"/">>
      url == base \o api \o c.version.v \o <<"/">> \o endpoint
  IN IF HasPort(c)
     THEN LET hostname == Hostname(url)
          IN StringReplace(url, hostname, hostname \o <<":">> \o PortChars(c.port))
     ELSE url

_getUrl(c, endpoint) ==
  LET api == c.wpAPIPrefix.v \o <<"/">>
      base == IF LastChar(c.url.v) = <<"/">> THEN c.url.v ELSE c.url.v \o <<"/">>
      url == base \o api \o c.version.v \o <<"/">> \o endpoint
  IN IF HasPort(c)
     THEN LET hostname == Hostname(url)
          IN StringReplace(url, hostname, hostname \o <<":">> \o PortChars(c.port))
     ELSE url

(* The headers object before the Authorization header is set. *)
BaseHeaders(node, c) ==
  IF node
  THEN [Accept |-> "application/json"] @@
       ("User-Agent" :> ("WooCommerce REST API - JS Client/" \o c.classVersion))
  ELSE [Accept |-> "application/json"]

(* ES module build: the header is set unconditionally. *)
SetAuthorization_mjs(c, headers) ==
  Assign(headers, "Authorization", "Bearer " \o TemplateString(c.jwtToken))

(* Variant of SetAuthorization_cjs that sends the bare token. *)
SetAuthorization_cjs_NoScheme(c, headers) ==
  IF Truthy(c.jwtToken)
  THEN Assign(headers, "Authorization", TemplateString(c.jwtToken))
  ELSE headers

(* CommonJS build: the header is set only for a truthy token. *)
SetAuthorization_cjs(c, headers) ==
  IF Truthy(c.jwtToken)
  THEN Assign(headers, "Authorization", "Bearer " \o TemplateString(c.jwtToken))
  ELSE headers

SetAuthorization(b, c, headers) ==
  IF b = "mjs" THEN SetAuthorization_mjs(c, headers)
  ELSE SetAuthorization_cjs(c, headers)

(* `if (data) { ... }`: the Content-Type header and the data field. *)
SetBody(options, data) ==
  IF Truthy(data)
  THEN [Assign(options, "data", JSONstringify(data)) EXCEPT
          !.headers = Assign(@, "Content-Type", "application/json;charset=utf-8")]
  ELSE options

(* The options object of _request just before the axiosConfig merge. *)
AssembleOptions(b, node, c, method, endpoint, data, params) ==
  LET headers == SetAuthorization(b, c, BaseHeaders(node, c))
      options == [url |-> _getUrl(c, endpoint),
                  method |-> method,
                  responseEncoding |-> c.encoding,
                  timeout |-> c.timeout,
                  responseType |-> "json",
                  headers |-> headers]
      withParams == Assign(options, "params", SpreadValue(params))
  IN SetBody(withParams, data)

(* Variant of MergeAxiosConfig that merges the headers key by key. *)
MergeAxiosConfig_DeepHeaders(options, c) ==
  LET cfg == c.axiosConfig.v
  IN [ObjectSpread(options, cfg) EXCEPT
        !.headers = IF Has(cfg, "headers")
                    THEN ObjectSpread(options.headers, cfg.headers)
                    ELSE @]

(* options = { ...options, ...this.axiosConfig } *)
MergeAxiosConfig(options, c) == ObjectSpread(options, c.axiosConfig.v)

-----------------------------------------------------------------------------
(* Inputs *)

UrlPlain == <<"h","t","t","p",":","/","/","a",".","b">>
UrlSlash == <<"h","t","t","p","s",":","/","/","a",".","b","/">>
UrlUpper == <<"h","t","t","p",":","/","/","A",".","b">>

UrlParts ==
  { EmptyObject, [url |-> Str(<<>>)], [url |-> Str(UrlPlain)],
    [url |-> Str(UrlSlash)], [url |-> Str(UrlUpper)] }

TokenParts ==
  { EmptyObject, [jwtToken |-> Str("")], [jwtToken |-> Str("tok")] }

PortParts == { EmptyObject, [port |-> Num(8080)] }

ExtraParts ==
  { EmptyObject,
    [wpAPIPrefix |-> Str(<<"a","p","i">>), version |-> Str(<<>>)],
    [wpAPIPrefix |-> Str(<<>>), version |-> Str(<<"w","c","/","v","2">>),
     encoding |-> Str("ascii"), timeout |-> Num(5000)] }

AxiosConfigs ==
  { [method |-> "patch"],
    [headers |-> [X |-> "1"]],
    [url |-> <<"h","t","t","p",":","/","/","o","/">>, timeout |-> Num(1),
     data |-> "raw", params |-> [q |-> Str("1")], maxRedirects |-> Num(0)] }

(* The argument of `new WooCommerceRestApi(opt)`: undefined, every         *)
(* combination of url, token, port and path options, and every transport   *)
(* override with every token on one url.                                   *)
Opts ==
  { Undefined } \cup
  { Obj(u @@ t @@ p @@ e) :
      u \in UrlParts, t \in TokenParts, p \in PortParts, e \in ExtraParts } \cup
  { Obj([url |-> Str(UrlPlain)] @@ t @@ [axiosConfig |-> Obj(a)]) :
      t \in TokenParts, a \in AxiosConfigs }

Endpoints ==
  { <<"p","r","o","d","u","c","t","s">>, <<"a",".","b","/","1">> }

(* The `data` argument of post and put. *)
Bodies ==
  { Undefined, Null, Num(0), Bool(FALSE), Str(""),
    Obj(<< <<"name", Str("Hat")>>, <<"price", Num(9)>> >>) }

(* The `params` argument of the verb methods. *)
Params ==
  { Undefined,
    Obj(<< <<"status", Str("publish")>>,
           <<"meta", Obj(<< <<"key", Str("color")>>, <<"value", Str("red")>> >>)>>,
           <<"after", Null>> >>) }

Verbs == {"get", "post", "put", "delete", "options"}

-----------------------------------------------------------------------------
(* State machine *)

NoClient == [classVersion |-> ""]

NoCall == [verb |-> "none"]

Init ==
  /\ build \in {"mjs", "cjs"}
  /\ isNode \in BOOLEAN
  /\ phase = "new"
  /\ arg = Undefined
  /\ client = NoClient
  /\ error = ""
  /\ last = NoCall
  /\ nSent = 0

(* new WooCommerceRestApi(opt) *)
Construct(opt) ==
  LET o == Or(opt, Obj(EmptyObject)).v
      e == OptionsError(build, o)
  IN /\ phase = "new"
     /\ arg' = opt
     /\ error' = e
     /\ IF e # ""
        THEN /\ phase' = "failed"
             /\ client' = NoClient
        ELSE /\ phase' = "ready"
             /\ client' = _setDefaultsOptions(o)
     /\ UNCHANGED <<build, isNode, last, nSent>>

(* A parameter with a default value `= {}`. *)
DefaultEmpty(x) == IF x.t = "undefined" THEN Obj(<<>>) ELSE x

(* Variant of _request that stores the merged options back into           *)
(* this.axiosConfig.                                                       *)
_request_StoresOptions(call, method, endpoint, data, params) ==
  LET p == DefaultEmpty(params)
      assembled == AssembleOptions(build, isNode, client, method, endpoint, data, p)
      options == MergeAxiosConfig(assembled, client)
  IN /\ phase = "ready"
     /\ nSent < MaxCalls
     /\ last' = [call EXCEPT !.assembled = assembled, !.options = options]
     /\ nSent' = nSent + 1
     /\ client' = [client EXCEPT !.axiosConfig = Obj(options)]
     /\ UNCHANGED <<build, isNode, phase, arg, error>>

(* _request(method, endpoint, data, params = {}): builds the options and   *)
(* hands them to axios once.  call is the public method invocation that    *)
(* led here, recorded with the request.                                    *)
_request(call, method, endpoint, data, params) ==
  LET p == DefaultEmpty(params)
      assembled == AssembleOptions(build, isNode, client, method, endpoint, data, p)
      options == MergeAxiosConfig(assembled, client)
  IN /\ phase = "ready"
     /\ nSent < MaxCalls
     /\ last' = [call EXCEPT !.assembled = assembled, !.options = options]
     /\ nSent' = nSent + 1
     /\ UNCHANGED <<build, isNode, phase, arg, client, error>>

(* The invocation verb(endpoint, body, params) of a public method; body is *)
(* undefined for the methods that take none.                               *)
Call(verb, endpoint, body, params) ==
  [verb |-> verb, endpoint |-> endpoint, body |-> body, params |-> params,
   assembled |-> EmptyObject, options |-> EmptyObject]

Get ==
  \E endpoint \in Endpoints, params \in Params :
    _request(Call("get", endpoint, Undefined, params),
             "get", endpoint, Null, DefaultEmpty(params))

Post ==
  \E endpoint \in Endpoints, data \in Bodies, params \in Params :
    _request(Call("post", endpoint, data, params),
             "post", endpoint, data, DefaultEmpty(params))

Put ==
  \E endpoint \in Endpoints, data \in Bodies, params \in Params :
    _request(Call("put", endpoint, data, params),
             "put", endpoint, data, DefaultEmpty(params))

Delete ==
  \E endpoint \in Endpoints, params \in Params :
    _request(Call("delete", endpoint, Undefined, params),
             "delete", endpoint, Null, DefaultEmpty(params))

Options ==
  \E endpoint \in Endpoints, params \in Params :
    _request(Call("options", endpoint, Undefined, params),
             "options", endpoint, Null, DefaultEmpty(params))

New == \E opt \in Opts : Construct(opt)

Next == New \/ Get \/ Post \/ Put \/ Delete \/ Options

Spec == Init /\ [][Next]_vars

-----------------------------------------------------------------------------
(* Properties *)

Sent == nSent > 0

(* The options object the constructor read (`opt || {}`). *)
ArgObject == Or(arg, Obj(EmptyObject)).v

Override == client.axiosConfig.v

HeaderIs(options, name, value) ==
  /\ Has(options, "headers")
  /\ Has(options.headers, name)
  /\ options.headers[name] = value

HasHeader(options, name) ==
  /\ Has(options, "headers")
  /\ Has(options.headers, name)

(* C1 as stated: with a bearer token configured, every request handed to   *)
(* the transport carries Authorization: Bearer <token>, whatever the       *)
(* transport-override map holds.                                           *)
C1_AuthorizationOnEveryRequest ==
  (Sent /\ Truthy(client.jwtToken)) =>
    HeaderIs(last.options, "Authorization", "Bearer " \o client.jwtToken.v)

(* C1 amended: with a bearer token configured, every request handed to the *)
(* transport carries Authorization: Bearer <token> unless the              *)
(* transport-override map has a headers key, and then the dispatched       *)
(* headers are exactly the override's headers.                             *)
C1_AuthorizationUnlessHeadersOverridden ==
  (Sent /\ Truthy(client.jwtToken)) =>
    IF Has(Override, "headers")
    THEN last.options.headers = Override.headers
    ELSE HeaderIs(last.options, "Authorization", "Bearer " \o client.jwtToken.v)

C1_Witness ==
  /\ Sent
  /\ Truthy(client.jwtToken)
  /\ DOMAIN Override # {}
  /\ ~Has(Override, "headers")
  /\ HeaderIs(last.options, "Authorization", "Bearer tok")

(* C2: a configuration with a url and no bearer token constructs a client, *)
(* and no request of that client has an Authorization header.              *)
C2_TokenlessClientOmitsAuthorization ==
  (/\ phase # "new"
   /\ Truthy(Prop(ArgObject, "url"))
   /\ ~Truthy(Prop(ArgObject, "jwtToken"))) =>
    /\ phase = "ready"
    /\ Sent => ~HasHeader(last.options, "Authorization")

(* C3: the query mapping of the dispatched request is the flattened form   *)
(* of the caller's params: a key with a nested object value appears as the *)
(* keys key[sub] and not under the original key, a key with a scalar value *)
(* appears unchanged.                                                      *)
C3_QueryIsFlattenedParams ==
  (Sent /\ ~Has(Override, "params")) =>
    LET pairs == DefaultEmpty(last.params).v
        query == last.options.params
    IN \A i \in 1..Len(pairs) :
         LET key == pairs[i][1]
             value == pairs[i][2]
         IN IF value.t = "object"
            THEN /\ ~Has(query, key)
                 /\ \A j \in 1..Len(value.v) :
                      LET itemKey == key \o "[" \o value.v[j][1] \o "]"
                      IN Has(query, itemKey) /\ query[itemKey] = value.v[j][2]
            ELSE value.t # "null" => (Has(query, key) /\ query[key] = value)

(* The URL composed for the last call had no port been configured. *)
UrlWithoutPort == _getUrl([client EXCEPT !.port = Str("")], last.endpoint)

(* The position of the last character of the host component of an absolute *)
(* URL that has neither userinfo nor port.                                 *)
HostEnd(u) == FirstOf(u, Len(SchemeOf(u)) + 4, {"/", "?", "#"}) - 1

(* C4: with a port configured, the composed URL is the URL composed        *)
(* without a port with ":port" inserted immediately after the host         *)
(* component, and nothing else changed.                                    *)
C4_PortSplicedAfterHost ==
  (Sent /\ HasPort(client)) =>
    last.assembled.url =
      SubSeq(UrlWithoutPort, 1, HostEnd(UrlWithoutPort)) \o <<":">> \o
      PortChars(client.port) \o
      SubSeq(UrlWithoutPort, HostEnd(UrlWithoutPort) + 1, Len(UrlWithoutPort))

(* C5: a non-null body (falsy ones included) gives the dispatched request  *)
(* Content-Type: application/json;charset=utf-8 and data = the JSON        *)
(* serialization of the body; a null or absent body gives it neither.      *)
C5_BodyIffNonNull ==
  (Sent /\ ~Has(Override, "headers") /\ ~Has(Override, "data")) =>
    IF last.body.t \notin {"null", "undefined"}
    THEN /\ HeaderIs(last.options, "Content-Type", "application/json;charset=utf-8")
         /\ Has(last.options, "data")
         /\ last.options.data = JSONstringify(last.body)
    ELSE /\ ~HasHeader(last.options, "Content-Type")
         /\ ~Has(last.options, "data")

(* C6: every top-level key of the transport-override map has exactly the   *)
(* override's value in the dispatched options (no deep merge), and every   *)
(* other key keeps its assembled value.                                    *)
C6_OverridesShallowMerge ==
  Sent =>
    /\ DOMAIN last.options = (DOMAIN last.assembled) \cup (DOMAIN Override)
    /\ \A k \in DOMAIN Override : last.options[k] = Override[k]
    /\ \A k \in (DOMAIN last.assembled) \ (DOMAIN Override) :
         last.options[k] = last.assembled[k]

C6_Witness ==
  /\ Sent
  /\ Has(Override, "headers")
  /\ last.options.headers = [X |-> "1"]
  /\ HasHeader(last.assembled, "Authorization")
  /\ last.options.method = last.assembled.method

(* C7: construction with a missing url (no options object, no url key, or  *)
(* an empty url) fails with the OptionsException "url is required" and     *)
(* produces no client.                                                     *)
C7_MissingUrlFails ==
  (phase # "new" /\ ~Truthy(Prop(ArgObject, "url"))) =>
    /\ phase = "failed"
    /\ error = "url is required"
    /\ client = NoClient
    /\ nSent = 0

C7_Witness ==
  /\ phase = "failed"
  /\ error = "url is required"
  /\ Has(ArgObject, "url")
  /\ Truthy(Prop(ArgObject, "jwtToken"))

(* The option read with its default, as the constructor's caller gave it. *)
GivenOr(k, default) ==
  IF Truthy(Prop(ArgObject, k)) THEN ArgObject[k].v ELSE default

(* C8: with no port, the composed URL is base + sep + prefix + "/" +       *)
(* version + "/" + endpoint, sep being "/" exactly when the base URL does  *)
(* not end in "/", prefix and version defaulting to wp-json and wc/v3.     *)
C8_UrlComposition ==
  (Sent /\ ~Truthy(Prop(ArgObject, "port"))) =>
    LET base == ArgObject.url.v
        sep == IF base[Len(base)] = "/" THEN <<>> ELSE <<"/">>
        prefix == GivenOr("wpAPIPrefix", <<"w","p","-","j","s","o","n">>)
        version == GivenOr("version", <<"w","c","/","v","3">>)
    IN last.assembled.url =
         base \o sep \o prefix \o <<"/">> \o version \o <<"/">> \o last.endpoint

C8_Witness ==
  /\ Sent
  /\ ~Truthy(Prop(ArgObject, "port"))
  /\ ArgObject.url.v = UrlSlash
  /\ ~Has(ArgObject, "wpAPIPrefix")
  /\ last.assembled.url =
       <<"h","t","t","p","s",":","/","/","a",".","b","/",
         "w","p","-","j","s","o","n","/","w","c","/","v","3","/",
         "p","r","o","d","u","c","t","s">>

(* C9: with an empty override map, every verb call hands the transport     *)
(* exactly one request with the verb as method; get, delete and options    *)
(* send no data, post and put send the body their caller passed.           *)
C9_VerbMethodAndBody ==
  [][(phase = "ready" /\ DOMAIN Override = {}) =>
       /\ nSent' = nSent + 1
       /\ last'.verb \in Verbs
       /\ last'.options.method = last'.verb
       /\ last'.verb \in {"get", "delete", "options"} =>
            ~Has(last'.options, "data")
       /\ last'.verb \in {"post", "put"} =>
            IF last'.body.t \in {"null", "undefined"}
            THEN ~Has(last'.options, "data")
            ELSE /\ Has(last'.options, "data")
                 /\ last'.options.data = JSONstringify(last'.body)]_vars

(* C10: once constructed, the client's configuration fields keep their     *)
(* values across every call.                                               *)
C10_ConfigurationReadOnly ==
  [][phase = "ready" => (phase' = "ready" /\ client' = client)]_vars

C10_Witness ==
  /\ nSent >= 2
  /\ client = _setDefaultsOptions(ArgObject)
  /\ DOMAIN Override # {}

====
